---- MODULE Spec2Model ----
(***************************************************************************)
(* Model of "2c - dataset generation.py": the script that samples the      *)
(* snow-object dataset (trees, hikers, dogs), concatenates and clamps the  *)
(* columns, writes Data/snow_objects.csv, reloads it and fits a            *)
(* classifier.  One action per top-level statement of the script.          *)
(*                                                                         *)
(* Representation.  float64 values are fixed-point integers in units of    *)
(* 1/Scale; a division rounds (towards minus infinity) as a float division *)
(* rounds.  A random generator is a small linear congruential generator:   *)
(* its whole state is one residue, a draw of n samples advances it n times *)
(* and maps each visited state to a sample.  The standard-normal table     *)
(* leaves out the single value -6.0 for which tree_motion + 1 = 0 (a       *)
(* measure-zero draw of the continuous distribution).                      *)
(***************************************************************************)
EXTENDS Integers, Sequences, FiniteSets, TLC

\* ---------------------------------------------------------------- bounds
MaxCount == 2        \* n_trees, n_hikers, n_dogs range over 0..MaxCount
MaxEntropy == 2      \* OS entropy for an unseeded generator: 0..MaxEntropy
RngModulus == 16     \* number of states of a generator

\* ------------------------------------------------------ program constants
Seed == 1234567
Scale == 1000

\* ------------------------------------------------------------ generators
\* One step of a generator (the bit generator's state transition).
Step(g) == (5 * g + 3) % RngModulus

RECURSIVE Advance(_, _)
Advance(g, n) == IF n = 0 THEN g ELSE Advance(Step(g), n - 1)

\* np.random.seed(1234567): the state of the global generator after seeding.
SeedState == Seed % RngModulus

\* Standard normal samples, in 1/Scale.
NormalTable == << 0, 1000, -1000, 2500, -3500, -4500, -5500, 500 >>

\* Samples of skewnorm(0.4), in 1/Scale.
SkewTable == << 0, 1000, -1500, 2000, -3000, 500, 3000, -500 >>

\* Generator.standard_normal(n): the n samples drawn from state g.
standard_normal(g, n) ==
    [i \in 1..n |-> NormalTable[(Advance(g, i) % Len(NormalTable)) + 1]]

\* skewnorm.rvs(skew, size=n) drawing from generator state g.
skewnorm_rvs(g, n) ==
    [i \in 1..n |-> SkewTable[(Advance(g, i) % Len(SkewTable)) + 1]]

\* Cumulative sum of the first k probabilities (in percent).
RECURSIVE CumSum(_, _)
CumSum(p, k) == IF k = 0 THEN 0 ELSE p[k] + CumSum(p, k - 1)

\* Index selected by a uniform variate u (percent) for probabilities p.
Pick(p, u) ==
    IF \E k \in 1..Len(p) : CumSum(p, k) > u
    THEN CHOOSE k \in 1..Len(p) :
             /\ CumSum(p, k) > u
             /\ \A j \in 1..(k - 1) : CumSum(p, j) <= u
    ELSE Len(p)

\* Generator.choice(a, n, p=p): n weighted categorical draws from state g.
choice(g, a, n, p) ==
    [i \in 1..n |-> a[Pick(p, (Advance(g, i) * 100) \div RngModulus)]]

\* ---------------------------------------------------- class configuration
TreePalette == << "green", "brown", "white", "yellow", "black" >>
TreeProbs == << 30, 35, 25, 5, 5 >>
HikePalette ==
    << "green", "brown", "white", "red", "blue", "yellow", "orange", "black" >>
HikeProbs == << 20, 25, 1, 4, 10, 5, 5, 30 >>
\* The dog palette taken from the hiker statement.
DogPaletteCopied == HikePalette

DogPalette == << "brown", "white", "red", "black" >>
DogProbs == << 30, 25, 5, 40 >>

Range(s) == {s[i] : i \in 1..Len(s)}

\* --------------------------------------------------- per-class arithmetic
\* (z * 10 + 30) / 30
TreeRoughness(z) == (z * 10 + 30 * Scale) \div 30
\* z * 0.5 + 2
TreeMotion(z) == (z * 5) \div 10 + 2 * Scale
\* z * 6 + (roughness + 1) / (motion + 1) * 20
TreeSize(z, r, m) == z * 6 + (((r + Scale) * Scale) \div (m + Scale)) * 20
\* (z * 2 + 5) / 5
HikeRoughness(z) == (z * 2 + 5 * Scale) \div 5
\* s * 1.5 + 4
HikeMotion(s) == (s * 15) \div 10 + 4 * Scale
\* z * 0.3 + 1.75
HikeSize(z) == (z * 3) \div 10 + (175 * Scale) \div 100
\* (z * 2 + 4.7) / 5
DogRoughness(z) == (z * 2 + (47 * Scale) \div 10) \div 5
\* s * 3 + 4
DogMotion(s) == s * 3 + 4 * Scale
\* z * 0.3 + 1.2
DogSize(z) == (z * 3) \div 10 + (12 * Scale) \div 10

\* ClampBelow with the comparison inverted.
ClampAbove(a, floor) ==
    [i \in 1..Len(a) |-> IF a[i] > floor THEN floor ELSE a[i]]

\* a[a < floor] = floor
ClampBelow(a, floor) ==
    [i \in 1..Len(a) |-> IF a[i] < floor THEN floor ELSE a[i]]

SizeFloor == (2 * Scale) \div 10

\* hstack with the last array left out.
hstackTwo(a, b, c) == a \o b

\* hstack with the first two arrays exchanged.
hstackSwapped(a, b, c) == b \o a \o c

\* np.hstack of three arrays
hstack(a, b, c) == a \o b \o c

\* [v] * n
Repeat(v, n) == [i \in 1..n |-> v]

\* ------------------------------------------------------------------ text
\* A string as the sequence of its characters.
Spelling ==
    [w \in {"size", "roughness", "color", "motion", "label",
            "tree", "hiker", "dog",
            "green", "brown", "white", "yellow", "black",
            "red", "blue", "orange"} |->
        CASE w = "size"      -> << "s", "i", "z", "e" >>
          [] w = "roughness" -> << "r", "o", "u", "g", "h", "n", "e", "s", "s" >>
          [] w = "color"     -> << "c", "o", "l", "o", "r" >>
          [] w = "motion"    -> << "m", "o", "t", "i", "o", "n" >>
          [] w = "label"     -> << "l", "a", "b", "e", "l" >>
          [] w = "tree"      -> << "t", "r", "e", "e" >>
          [] w = "hiker"     -> << "h", "i", "k", "e", "r" >>
          [] w = "dog"       -> << "d", "o", "g" >>
          [] w = "green"     -> << "g", "r", "e", "e", "n" >>
          [] w = "brown"     -> << "b", "r", "o", "w", "n" >>
          [] w = "white"     -> << "w", "h", "i", "t", "e" >>
          [] w = "yellow"    -> << "y", "e", "l", "l", "o", "w" >>
          [] w = "black"     -> << "b", "l", "a", "c", "k" >>
          [] w = "red"       -> << "r", "e", "d" >>
          [] w = "blue"      -> << "b", "l", "u", "e" >>
          [] w = "orange"    -> << "o", "r", "a", "n", "g", "e" >>]

\* The string a sequence of characters spells.
Word(cs) ==
    IF \E w \in DOMAIN Spelling : Spelling[w] = cs
    THEN CHOOSE w \in DOMAIN Spelling : Spelling[w] = cs
    ELSE "?"

DigitChar == << "0", "1", "2", "3", "4", "5", "6", "7", "8", "9" >>

DigitVal(c) == CHOOSE d \in 0..9 : DigitChar[d + 1] = c

Abs(v) == IF v < 0 THEN 0 - v ELSE v

\* Decimal digits of a natural number.
RECURSIVE Digits(_)
Digits(n) ==
    IF n < 10 THEN << DigitChar[n + 1] >>
    ELSE Digits(n \div 10) \o << DigitChar[(n % 10) + 1] >>

\* Value of a sequence of decimal digits.
RECURSIVE DigitsVal(_)
DigitsVal(cs) ==
    IF cs = << >> THEN 0
    ELSE DigitsVal(SubSeq(cs, 1, Len(cs) - 1)) * 10 + DigitVal(cs[Len(cs)])

\* Fraction digits without trailing zeros, at least one digit kept.
RECURSIVE StripZeros(_)
StripZeros(cs) ==
    IF Len(cs) > 1 /\ cs[Len(cs)] = "0"
    THEN StripZeros(SubSeq(cs, 1, Len(cs) - 1))
    ELSE cs

\* The three fraction digits of f (0 <= f < Scale).
FracDigits(f) ==
    << DigitChar[(f \div 100) + 1], DigitChar[((f \div 10) % 10) + 1],
       DigitChar[(f % 10) + 1] >>

\* repr of a float, as to_csv writes it: "-0.5", "1.75", "2.0".
FormatFloat(v) ==
    (IF v < 0 THEN << "-" >> ELSE << >>)
        \o Digits(Abs(v) \div Scale) \o << "." >>
        \o StripZeros(FracDigits(Abs(v) % Scale))

\* Does the field read as a number?
IsNumeric(cs) ==
    /\ cs # << >>
    /\ \A i \in 1..Len(cs) :
           \/ cs[i] \in Range(DigitChar)
           \/ cs[i] = "."
           \/ (cs[i] = "-" /\ i = 1)
    /\ \E i \in 1..Len(cs) : cs[i] \in Range(DigitChar)

RECURSIVE Pow10(_)
Pow10(k) == IF k = 0 THEN 1 ELSE 10 * Pow10(k - 1)

\* The float a numeric field parses to.
ParseFloat(cs) ==
    LET neg  == cs[1] = "-"
        body == IF neg THEN Tail(cs) ELSE cs
        dot  == IF \E i \in 1..Len(body) : body[i] = "."
                THEN CHOOSE i \in 1..Len(body) : body[i] = "."
                ELSE Len(body) + 1
        ip   == SubSeq(body, 1, dot - 1)
        fp   == SubSeq(body, dot + 1, Len(body))
        mag  == DigitsVal(ip) * Scale
                + (DigitsVal(fp) * Scale) \div Pow10(Len(fp))
    IN  IF neg THEN 0 - mag ELSE mag

\* sep.join(fields)
RECURSIVE Join(_, _)
Join(fields, sep) ==
    IF fields = << >> THEN << >>
    ELSE IF Len(fields) = 1 THEN fields[1]
    ELSE fields[1] \o << sep >> \o Join(Tail(fields), sep)

\* line.split(sep)
RECURSIVE Split(_, _)
Split(line, sep) ==
    IF \E i \in 1..Len(line) : line[i] = sep
    THEN LET k == CHOOSE i \in 1..Len(line) :
                      /\ line[i] = sep
                      /\ \A j \in 1..(i - 1) : line[j] # sep
         IN  << SubSeq(line, 1, k - 1) >>
                 \o Split(SubSeq(line, k + 1, Len(line)), sep)
    ELSE << line >>

\* ---------------------------------------------------------------- tables
\* A table: column names in order, a dtype and a value array per column,
\* and the number of rows.
NoFrame == [columns |-> << >>, dtype |-> << >>, col |-> << >>, n |-> 0]

FloatColumns == {"size", "roughness", "motion"}

\* pandas.DataFrame(dict(size=.., roughness=.., color=.., motion=.., label=..))
DataFrame(size, roughness, color, motion, label) ==
    LET names == << "size", "roughness", "color", "motion", "label" >>
    IN  [columns |-> names,
         dtype   |-> [c \in Range(names) |->
                         IF c \in FloatColumns THEN "float64" ELSE "object"],
         col     |-> [c \in Range(names) |->
                         CASE c = "size"      -> size
                           [] c = "roughness" -> roughness
                           [] c = "color"     -> color
                           [] c = "motion"    -> motion
                           [] c = "label"     -> label],
         n       |-> Len(size)]

\* One cell as to_csv writes it.
FormatCell(f, c, i) ==
    IF f.dtype[c] = "float64" THEN FormatFloat(f.col[c][i])
    ELSE Spelling[f.col[c][i]]

\* to_csv with index=True: a leading index column under an empty name.
to_csvWithIndex(f) ==
    << Join(<< << >> >> \o [j \in 1..Len(f.columns) |->
                              Spelling[f.columns[j]]], "\t") >>
        \o [i \in 1..f.n |->
               Join(<< Digits(i - 1) >> \o [j \in 1..Len(f.columns) |->
                        FormatCell(f, f.columns[j], i)], "\t")]

\* to_csv writing nothing at all for a table without rows.
to_csvSkipEmpty(f) ==
    IF f.n = 0 THEN << >>
    ELSE << Join([j \in 1..Len(f.columns) |-> Spelling[f.columns[j]]], "\t") >>
             \o [i \in 1..f.n |->
                    Join([j \in 1..Len(f.columns) |->
                             FormatCell(f, f.columns[j], i)], "\t")]

\* DataFrame.to_csv(path, sep="\t", index=False): the lines of the file,
\* a header line and one line per row, no index column.
to_csv(f) ==
    << Join([j \in 1..Len(f.columns) |-> Spelling[f.columns[j]]], "\t") >>
        \o [i \in 1..f.n |->
               Join([j \in 1..Len(f.columns) |->
                        FormatCell(f, f.columns[j], i)], "\t")]

\* pandas.read_csv(path, delimiter="\t"): the first line names the columns,
\* a column whose fields all read as numbers is float64, any other is object.
read_csv(lines) ==
    LET header == Split(lines[1], "\t")
        names  == [j \in 1..Len(header) |-> Word(header[j])]
        n      == Len(lines) - 1
        field(i, j) == Split(lines[i + 1], "\t")[j]
        numeric(j) == n > 0 /\ \A i \in 1..n : IsNumeric(field(i, j))
        pos(c) == CHOOSE j \in 1..Len(names) : names[j] = c
    IN  [columns |-> names,
         dtype   |-> [c \in Range(names) |->
                         IF numeric(pos(c)) THEN "float64" ELSE "object"],
         col     |-> [c \in Range(names) |->
                         [i \in 1..n |->
                             IF numeric(pos(c))
                             THEN ParseFloat(field(i, pos(c)))
                             ELSE Word(field(i, pos(c)))]],
         n       |-> n]

\* pandas.get_dummies(dataset.color), joined to the table, "color" dropped:
\* one boolean column per colour present, in sorted order.
SortedColors ==
    << "black", "blue", "brown", "green", "orange", "red", "white", "yellow" >>

get_dummies(f) ==
    LET present(c) == \E i \in 1..f.n : f.col["color"][i] = c
        cats == SelectSeq(SortedColors, present)
        kept == SelectSeq(f.columns, LAMBDA c : c # "color")
        names == kept \o cats
    IN  [columns |-> names,
         dtype   |-> [c \in Range(names) |->
                         IF c \in Range(kept) THEN f.dtype[c] ELSE "bool"],
         col     |-> [c \in Range(names) |->
                         IF c \in Range(kept) THEN f.col[c]
                         ELSE [i \in 1..f.n |-> f.col["color"][i] = c]],
         n       |-> f.n]

\* train_test_split(test_size=0.3): the size of the test part, ceil(0.3 n).
TestSize(n) == (3 * n + 9) \div 10

\* The shuffle of train_test_split(random_state=1, shuffle=True): a
\* permutation of 1..n fixed by the seed (Fisher-Yates over the generator
\* seeded with 1).
RECURSIVE Shuffle(_, _, _)
Shuffle(perm, i, g) ==
    IF i < 2 THEN perm
    ELSE LET j == (Step(g) % i) + 1
         IN  Shuffle([perm EXCEPT ![i] = perm[j], ![j] = perm[i]],
                     i - 1, Step(g))

Permutation(n) == Shuffle([i \in 1..n |-> i], n, 1 % RngModulus)

\* ----------------------------------------------------------------- state
VARIABLES
    n_trees, n_hikers, n_dogs,      \* the configured class counts
    np_random,                      \* state of the global numpy generator
    rng,                            \* state of rng = np.random.default_rng()
    pc,                             \* the statement to execute next
    error,                          \* the exception that ended the run
    tree_color, tree_roughness, tree_motion, tree_size, tree_labels,
    hike_color, hike_roughness, hike_motion, hike_size, hike_labels,
    dog_color, dog_roughness, dog_motion, dog_size, dog_labels,
    noise,                          \* the standard_normal temporaries of
                                    \* the three size statements
    color, size, roughness, motion, label,
    d,                              \* the DataFrame
    fs,                             \* Data directory and snow_objects.csv
    dataset, train, test,           \* the Evaluator's table and its split
    random_forest,                  \* the classifier
    prev,                           \* what the previous run of the script
                                    \* produced, << >> in the first run
    plot_pc,                        \* position inside a call of scatter_3D
    args,                           \* the arguments of the call
    label_colour,                   \* scatter_3D's local label_colour
    selected_columns, axis_labels,  \* what _prepare_labels returned
    fig                             \* the figure handed to the caller

counts == << n_trees, n_hikers, n_dogs >>
gens == << np_random, rng >>
treeVars ==
    << tree_color, tree_roughness, tree_motion, tree_size, tree_labels >>
hikeVars ==
    << hike_color, hike_roughness, hike_motion, hike_size, hike_labels >>
dogVars == << dog_color, dog_roughness, dog_motion, dog_size, dog_labels >>
classVars == << treeVars, hikeVars, dogVars, noise >>
catVars == << color, size, roughness, motion, label >>
evalVars == << dataset, train, test, random_forest >>
plotVars ==
    << plot_pc, args, label_colour, selected_columns, axis_labels, fig >>
scriptVars ==
    << counts, gens, pc, error, classVars, catVars, d, fs, evalVars, prev >>
vars == << scriptVars, plotVars >>

\* Python's None, for an optional str
None == "None"

NoArgs ==
    [columns |-> << >>, label_x |-> None, label_y |-> None, label_z |-> None,
     label_colour |-> None, show |-> FALSE]

NoFig == [x |-> None, y |-> None, z |-> None, color |-> None,
          labels |-> << >>, shown |-> FALSE]

\* No call of scatter_3D is in progress.
PlotIdle ==
    /\ plot_pc = "idle"
    /\ args = NoArgs
    /\ label_colour = None
    /\ selected_columns = << >>
    /\ axis_labels = << >>
    /\ fig = NoFig

\* rng before line 25 has run
NoGenerator == 0 - 1

\* The generator each kind of draw reads: rng.standard_normal and rng.choice
\* are methods of rng; skewnorm.rvs is given no random_state and so draws
\* from the global numpy generator.
NormalSource == "rng"
ChoiceSource == "rng"
\* skewnorm.rvs handed rng as its random_state.
SkewSourceRng == "rng"

SkewSource == "np_random"

Gen(src) == IF src = "rng" THEN rng ELSE np_random

\* The generator src has produced n samples; the other one is untouched.
Drawn(src, n) ==
    /\ rng' = IF src = "rng" THEN Advance(rng, n) ELSE rng
    /\ np_random' = IF src = "np_random" THEN Advance(np_random, n)
                    ELSE np_random

\* def skewed_normal(skew, n_samples)
skewed_normal(n_samples) == skewnorm_rvs(Gen(SkewSource), n_samples)

\* A file left by an earlier version of the script.
StaleLines == << Spelling["label"] >>

InitialFS ==
    { [dir |-> FALSE, exists |-> FALSE, lines |-> << >>],
      [dir |-> TRUE, exists |-> FALSE, lines |-> << >>],
      [dir |-> TRUE, exists |-> TRUE, lines |-> StaleLines] }

NoForest == [fitted |-> FALSE, classes |-> {}]

\* The state of a fresh interpreter at the top of the script.
Fresh ==
    /\ rng = NoGenerator
    /\ pc = "seed"
    /\ error = "none"
    /\ tree_color = << >> /\ tree_roughness = << >> /\ tree_motion = << >>
    /\ tree_size = << >> /\ tree_labels = << >>
    /\ hike_color = << >> /\ hike_roughness = << >> /\ hike_motion = << >>
    /\ hike_size = << >> /\ hike_labels = << >>
    /\ dog_color = << >> /\ dog_roughness = << >> /\ dog_motion = << >>
    /\ dog_size = << >> /\ dog_labels = << >>
    /\ noise = [tree |-> << >>, hiker |-> << >>, dog |-> << >>]
    /\ color = << >> /\ size = << >> /\ roughness = << >>
    /\ motion = << >> /\ label = << >>
    /\ d = NoFrame
    /\ dataset = NoFrame /\ train = << >> /\ test = << >>
    /\ random_forest = NoForest

Init ==
    /\ n_trees \in 0..MaxCount
    /\ n_hikers \in 0..MaxCount
    /\ n_dogs \in 0..MaxCount
    /\ np_random \in 0..MaxEntropy
    /\ fs \in InitialFS
    /\ prev = << >>
    /\ Fresh
    /\ PlotIdle

\* --------------------------------------------------------------- actions
\* np.random.seed(1234567)
SeedGlobal ==
    /\ pc = "seed"
    /\ np_random' = SeedState
    /\ pc' = "default_rng"
    /\ UNCHANGED << plotVars, counts, rng, error, classVars, catVars, d, fs, evalVars,
                    prev >>

\* rng = np.random.default_rng(): seeded from fresh OS entropy
DefaultRng ==
    /\ pc = "default_rng"
    /\ rng' \in 0..MaxEntropy
    /\ pc' = "tree_color"
    /\ UNCHANGED << plotVars, counts, np_random, error, classVars, catVars, d, fs,
                    evalVars, prev >>

\* The tree_size expression computed from the population means of
\* roughness and motion instead of each row's own values.
RECURSIVE Sum(_)
Sum(a) == IF a = << >> THEN 0 ELSE a[1] + Sum(Tail(a))

TreeSizesMean(z, r, m) ==
    [i \in 1..Len(z) |-> TreeSize(z[i], Sum(r) \div Len(r), Sum(m) \div Len(m))]

\* The elementwise expression of the tree_size statement.
TreeSizes(z, r, m) == [i \in 1..Len(z) |-> TreeSize(z[i], r[i], m[i])]

\* tree_color = rng.choice([...], n_trees, p=[...])
GenTreeColor ==
    /\ pc = "tree_color"
    /\ tree_color' = choice(Gen(ChoiceSource), TreePalette, n_trees, TreeProbs)
    /\ Drawn(ChoiceSource, n_trees)
    /\ pc' = "tree_roughness"
    /\ UNCHANGED << plotVars, counts, error, tree_roughness, tree_motion, tree_size,
                    tree_labels, hikeVars, dogVars, noise, catVars, d, fs,
                    evalVars, prev >>

\* tree_roughness = (rng.standard_normal(n_trees) * 10 + 30)/30
GenTreeRoughness ==
    /\ pc = "tree_roughness"
    /\ tree_roughness' =
           [i \in 1..n_trees |->
               TreeRoughness(standard_normal(Gen(NormalSource), n_trees)[i])]
    /\ Drawn(NormalSource, n_trees)
    /\ pc' = "tree_motion"
    /\ UNCHANGED << plotVars, counts, error, tree_color, tree_motion, tree_size,
                    tree_labels, hikeVars, dogVars, noise, catVars, d, fs,
                    evalVars, prev >>

\* tree_motion = rng.standard_normal(n_trees) * 0.5 + 2
GenTreeMotion ==
    /\ pc = "tree_motion"
    /\ tree_motion' =
           [i \in 1..n_trees |->
               TreeMotion(standard_normal(Gen(NormalSource), n_trees)[i])]
    /\ Drawn(NormalSource, n_trees)
    /\ pc' = "tree_size"
    /\ UNCHANGED << plotVars, counts, error, tree_color, tree_roughness, tree_size,
                    tree_labels, hikeVars, dogVars, noise, catVars, d, fs,
                    evalVars, prev >>

\* tree_size = rng.standard_normal(n_trees) * 6
\*             + (tree_roughness + 1) / (tree_motion + 1) * 20
GenTreeSize ==
    /\ pc = "tree_size"
    /\ LET z == standard_normal(Gen(NormalSource), n_trees)
       IN  /\ noise' = [noise EXCEPT !.tree = z]
           /\ tree_size' = TreeSizes(z, tree_roughness, tree_motion)
    /\ Drawn(NormalSource, n_trees)
    /\ pc' = "tree_labels"
    /\ UNCHANGED << plotVars, counts, error, tree_color, tree_roughness, tree_motion,
                    tree_labels, hikeVars, dogVars, catVars, d, fs, evalVars,
                    prev >>

\* tree_labels = ["tree"] * n_trees
GenTreeLabels ==
    /\ pc = "tree_labels"
    /\ tree_labels' = Repeat("tree", n_trees)
    /\ pc' = "hike_color"
    /\ UNCHANGED << plotVars, counts, gens, error, tree_color, tree_roughness,
                    tree_motion, tree_size, hikeVars, dogVars, noise, catVars,
                    d, fs, evalVars, prev >>

\* hike_color = rng.choice([...], n_hikers, p=[...])
GenHikeColor ==
    /\ pc = "hike_color"
    /\ hike_color' = choice(Gen(ChoiceSource), HikePalette, n_hikers, HikeProbs)
    /\ Drawn(ChoiceSource, n_hikers)
    /\ pc' = "hike_roughness"
    /\ UNCHANGED << plotVars, counts, error, treeVars, hike_roughness, hike_motion,
                    hike_size, hike_labels, dogVars, noise, catVars, d, fs,
                    evalVars, prev >>

\* hike_roughness = (rng.standard_normal(n_hikers) * 2 + 5)/5
GenHikeRoughness ==
    /\ pc = "hike_roughness"
    /\ hike_roughness' =
           [i \in 1..n_hikers |->
               HikeRoughness(standard_normal(Gen(NormalSource), n_hikers)[i])]
    /\ Drawn(NormalSource, n_hikers)
    /\ pc' = "hike_motion"
    /\ UNCHANGED << plotVars, counts, error, treeVars, hike_color, hike_motion,
                    hike_size, hike_labels, dogVars, noise, catVars, d, fs,
                    evalVars, prev >>

\* hike_motion = skewed_normal(0.4, n_hikers) * 1.5 + 4
GenHikeMotion ==
    /\ pc = "hike_motion"
    /\ hike_motion' = [i \in 1..n_hikers |-> HikeMotion(skewed_normal(n_hikers)[i])]
    /\ Drawn(SkewSource, n_hikers)
    /\ pc' = "hike_size"
    /\ UNCHANGED << plotVars, counts, error, treeVars, hike_color, hike_roughness,
                    hike_size, hike_labels, dogVars, noise, catVars, d, fs,
                    evalVars, prev >>

\* hike_size = rng.standard_normal(n_hikers) * 0.3 + 1.75
GenHikeSize ==
    /\ pc = "hike_size"
    /\ LET z == standard_normal(Gen(NormalSource), n_hikers)
       IN  /\ noise' = [noise EXCEPT !.hiker = z]
           /\ hike_size' = [i \in 1..Len(z) |-> HikeSize(z[i])]
    /\ Drawn(NormalSource, n_hikers)
    /\ pc' = "hike_labels"
    /\ UNCHANGED << plotVars, counts, error, treeVars, hike_color, hike_roughness,
                    hike_motion, hike_labels, dogVars, catVars, d, fs,
                    evalVars, prev >>

\* hike_labels = ["hiker"] * n_hikers
GenHikeLabels ==
    /\ pc = "hike_labels"
    /\ hike_labels' = Repeat("hiker", n_hikers)
    /\ pc' = "dog_color"
    /\ UNCHANGED << plotVars, counts, gens, error, treeVars, hike_color, hike_roughness,
                    hike_motion, hike_size, dogVars, noise, catVars, d, fs,
                    evalVars, prev >>

\* dog_color = rng.choice([...], n_dogs, p=[...])
GenDogColor ==
    /\ pc = "dog_color"
    /\ dog_color' = choice(Gen(ChoiceSource), DogPalette, n_dogs, DogProbs)
    /\ Drawn(ChoiceSource, n_dogs)
    /\ pc' = "dog_roughness"
    /\ UNCHANGED << plotVars, counts, error, treeVars, hikeVars, dog_roughness,
                    dog_motion, dog_size, dog_labels, noise, catVars, d, fs,
                    evalVars, prev >>

\* dog_roughness = (rng.standard_normal(n_dogs) * 2 + 4.7)/5
GenDogRoughness ==
    /\ pc = "dog_roughness"
    /\ dog_roughness' =
           [i \in 1..n_dogs |->
               DogRoughness(standard_normal(Gen(NormalSource), n_dogs)[i])]
    /\ Drawn(NormalSource, n_dogs)
    /\ pc' = "dog_motion"
    /\ UNCHANGED << plotVars, counts, error, treeVars, hikeVars, dog_color, dog_motion,
                    dog_size, dog_labels, noise, catVars, d, fs, evalVars,
                    prev >>

\* dog_motion = skewed_normal(0.4, n_dogs) * 3 + 4
GenDogMotion ==
    /\ pc = "dog_motion"
    /\ dog_motion' = [i \in 1..n_dogs |-> DogMotion(skewed_normal(n_dogs)[i])]
    /\ Drawn(SkewSource, n_dogs)
    /\ pc' = "dog_size"
    /\ UNCHANGED << plotVars, counts, error, treeVars, hikeVars, dog_color,
                    dog_roughness, dog_size, dog_labels, noise, catVars, d, fs,
                    evalVars, prev >>

\* dog_size = rng.standard_normal(n_dogs) * 0.3 + 1.2
GenDogSize ==
    /\ pc = "dog_size"
    /\ LET z == standard_normal(Gen(NormalSource), n_dogs)
       IN  /\ noise' = [noise EXCEPT !.dog = z]
           /\ dog_size' = [i \in 1..Len(z) |-> DogSize(z[i])]
    /\ Drawn(NormalSource, n_dogs)
    /\ pc' = "dog_labels"
    /\ UNCHANGED << plotVars, counts, error, treeVars, hikeVars, dog_color,
                    dog_roughness, dog_motion, dog_labels, catVars, d, fs,
                    evalVars, prev >>

\* dog_labels = ["dog"] * n_dogs
GenDogLabels ==
    /\ pc = "dog_labels"
    /\ dog_labels' = Repeat("dog", n_dogs)
    /\ pc' = "concat"
    /\ UNCHANGED << plotVars, counts, gens, error, treeVars, hikeVars, dog_color,
                    dog_roughness, dog_motion, dog_size, noise, catVars, d, fs,
                    evalVars, prev >>

\* color = np.hstack([tree_color, hike_color, dog_color]), and likewise
\* size, roughness, motion and label
Concat ==
    /\ pc = "concat"
    /\ color' = hstack(tree_color, hike_color, dog_color)
    /\ size' = hstack(tree_size, hike_size, dog_size)
    /\ roughness' = hstack(tree_roughness, hike_roughness, dog_roughness)
    /\ motion' = hstack(tree_motion, hike_motion, dog_motion)
    /\ label' = hstack(tree_labels, hike_labels, dog_labels)
    /\ pc' = "clamp"
    /\ UNCHANGED << plotVars, counts, gens, error, classVars, d, fs, evalVars, prev >>

\* roughness[roughness < 0] = 0; motion[motion < 0] = 0; size[size < 0.2] = 0.2
Clamp ==
    /\ pc = "clamp"
    /\ roughness' = ClampBelow(roughness, 0)
    /\ motion' = ClampBelow(motion, 0)
    /\ size' = ClampBelow(size, SizeFloor)
    /\ pc' = "DataFrame"
    /\ UNCHANGED << plotVars, counts, gens, error, classVars, color, label, d, fs,
                    evalVars, prev >>

\* d = pandas.DataFrame(dict(size=size, roughness=roughness, color=color,
\*                           motion=motion, label=label))
MakeFrame ==
    /\ pc = "DataFrame"
    /\ d' = DataFrame(size, roughness, color, motion, label)
    /\ pc' = "to_csv"
    /\ UNCHANGED << plotVars, counts, gens, error, classVars, catVars, fs, evalVars,
                    prev >>

\* d.to_csv("Data/snow_objects.csv", sep="\t", index=False), the directory
\* Data exists: the file is created or replaced.
WriteCsv ==
    /\ pc = "to_csv"
    /\ fs.dir
    /\ fs' = [dir |-> TRUE, exists |-> TRUE, lines |-> to_csv(d)]
    /\ pc' = "read_csv"
    /\ UNCHANGED << plotVars, counts, gens, error, classVars, catVars, d, evalVars,
                    prev >>

\* A write that creates the missing directory and goes on.
WriteCsvMakedirs ==
    /\ pc = "to_csv"
    /\ ~fs.dir
    /\ fs' = [dir |-> TRUE, exists |-> TRUE, lines |-> to_csv(d)]
    /\ pc' = "read_csv"
    /\ UNCHANGED << plotVars, counts, gens, error, classVars, catVars, d, evalVars,
                    prev >>

\* d.to_csv(...), no directory Data: open() raises, nothing catches it.
WriteCsvFails ==
    /\ pc = "to_csv"
    /\ ~fs.dir
    /\ error' = "OSError"
    /\ pc' = "aborted"
    /\ UNCHANGED << plotVars, counts, gens, classVars, catVars, d, fs, evalVars, prev >>

\* dataset = pandas.read_csv('Data/snow_objects.csv', delimiter="\t")
\* (the file exists: the script has just written it)
ReadCsv ==
    /\ pc = "read_csv"
    /\ fs.exists
    /\ dataset' = read_csv(fs.lines)
    /\ pc' = "get_dummies"
    /\ UNCHANGED << plotVars, counts, gens, error, classVars, catVars, d, fs, train,
                    test, random_forest, prev >>

\* dataset = dataset.join(pandas.get_dummies(dataset.color))
\* dataset = dataset.drop("color", axis=1)
OneHot ==
    /\ pc = "get_dummies"
    /\ dataset' = get_dummies(dataset)
    /\ pc' = "train_test_split"
    /\ UNCHANGED << plotVars, counts, gens, error, classVars, catVars, d, fs, train,
                    test, random_forest, prev >>

\* train, test = train_test_split(dataset, test_size=0.3, random_state=1,
\*                                shuffle=True): row positions of each part
SplitRows ==
    /\ pc = "train_test_split"
    /\ dataset.n - TestSize(dataset.n) > 0
    /\ LET perm == Permutation(dataset.n)
           k    == TestSize(dataset.n)
       IN  /\ test' = SubSeq(perm, 1, k)
           /\ train' = SubSeq(perm, k + 1, dataset.n)
    /\ pc' = "fit"
    /\ UNCHANGED << plotVars, counts, gens, error, classVars, catVars, d, fs, dataset,
                    random_forest, prev >>

\* train_test_split on a table too small to leave a train part: ValueError
SplitFails ==
    /\ pc = "train_test_split"
    /\ dataset.n - TestSize(dataset.n) <= 0
    /\ error' = "ValueError"
    /\ pc' = "aborted"
    /\ UNCHANGED << plotVars, counts, gens, classVars, catVars, d, fs, evalVars, prev >>

\* random_forest.fit(train[features], train.label)
Fit ==
    /\ pc = "fit"
    /\ random_forest' =
           [fitted |-> TRUE,
            classes |-> {dataset.col["label"][train[i]] : i \in 1..Len(train)}]
    /\ pc' = "assess"
    /\ UNCHANGED << plotVars, counts, gens, error, classVars, catVars, d, fs, dataset,
                    train, test, prev >>

\* train_sensitivity, test_sensitivity = assess_performance(random_forest)
Assess ==
    /\ pc = "assess"
    /\ pc' = "done"
    /\ UNCHANGED << plotVars, counts, gens, error, classVars, catVars, d, fs, evalVars,
                    prev >>

\* The script is run again, in a new interpreter: the configuration and the
\* file system are as the previous run left them, everything else is fresh.
Rerun ==
    /\ pc \in {"done", "aborted"}
    /\ prev' = << [size |-> size, roughness |-> roughness, motion |-> motion,
                   fs |-> fs] >>
    /\ np_random' \in 0..MaxEntropy
    /\ rng' = NoGenerator
    /\ pc' = "seed"
    /\ error' = "none"
    /\ tree_color' = << >> /\ tree_roughness' = << >> /\ tree_motion' = << >>
    /\ tree_size' = << >> /\ tree_labels' = << >>
    /\ hike_color' = << >> /\ hike_roughness' = << >> /\ hike_motion' = << >>
    /\ hike_size' = << >> /\ hike_labels' = << >>
    /\ dog_color' = << >> /\ dog_roughness' = << >> /\ dog_motion' = << >>
    /\ dog_size' = << >> /\ dog_labels' = << >>
    /\ noise' = [tree |-> << >>, hiker |-> << >>, dog |-> << >>]
    /\ color' = << >> /\ size' = << >> /\ roughness' = << >>
    /\ motion' = << >> /\ label' = << >>
    /\ d' = NoFrame
    /\ dataset' = NoFrame /\ train' = << >> /\ test' = << >>
    /\ random_forest' = NoForest
    /\ UNCHANGED << plotVars, counts, fs >>

Next ==
    \/ SeedGlobal \/ DefaultRng
    \/ GenTreeColor \/ GenTreeRoughness \/ GenTreeMotion \/ GenTreeSize
    \/ GenTreeLabels
    \/ GenHikeColor \/ GenHikeRoughness \/ GenHikeMotion \/ GenHikeSize
    \/ GenHikeLabels
    \/ GenDogColor \/ GenDogRoughness \/ GenDogMotion \/ GenDogSize
    \/ GenDogLabels
    \/ Concat \/ Clamp \/ MakeFrame
    \/ WriteCsv \/ WriteCsvFails
    \/ ReadCsv \/ OneHot \/ SplitRows \/ SplitFails \/ Fit \/ Assess
    \/ Rerun

Spec == Init /\ [][Next]_vars

\* ------------------------------------------------- graphing.scatter_3D
\* def _to_human_readable(text): text.replace("_", " ")
_to_human_readable(text) ==
    Word([i \in 1..Len(Spelling[text]) |->
             IF Spelling[text][i] = "_" THEN " " ELSE Spelling[text][i]])

\* _prepare_labels raises IndexError: a label left None has no column of
\* the same position to stand in for it.
PrepareRaises(columns, labels, replace_nones) ==
    \E i \in 1..Len(labels) :
        replace_nones[i] /\ labels[i] = None /\ i > Len(columns)

\* def _prepare_labels(df, labels, replace_nones=True): the labels with
\* every None replaced by the column of the same position, and the
\* human-readable name of each label.
_prepare_labels(columns, labels, replace_nones) ==
    LET picked == [i \in 1..Len(labels) |->
                      IF replace_nones[i] /\ labels[i] = None
                      THEN columns[i] ELSE labels[i]]
    IN  [labels |-> picked,
         human_readable |->
             [lab \in {picked[i] : i \in 1..Len(picked)} \ {None} |->
                 _to_human_readable(lab)]]

\* The column names of the tables scatter_3D is handed: the first k columns
\* of the dataset.
FrameColumns ==
    LET all == << "size", "roughness", "color", "motion", "label" >>
    IN  {SubSeq(all, 1, k) : k \in 2..Len(all)}

OptionalLabel(columns) == Range(columns) \cup {None}

\* scatter_3D(df, label_x, label_y, label_z, label_colour, title, show)
ScatterCall ==
    /\ plot_pc = "idle"
    /\ \E columns \in FrameColumns :
           \E lx \in OptionalLabel(columns), ly \in OptionalLabel(columns),
              lz \in OptionalLabel(columns), lc \in OptionalLabel(columns),
              show \in BOOLEAN :
               /\ args' = [columns |-> columns, label_x |-> lx,
                           label_y |-> ly, label_z |-> lz,
                           label_colour |-> lc, show |-> show]
               /\ label_colour' = lc
    /\ plot_pc' = "prepare"
    /\ UNCHANGED << scriptVars, selected_columns, axis_labels, fig >>

\* selected_columns, axis_labels =
\*     _prepare_labels(df, [label_x, label_y, label_z])
ScatterPrepare ==
    /\ plot_pc = "prepare"
    /\ LET labels == << args.label_x, args.label_y, args.label_z >>
           rn == << TRUE, TRUE, TRUE >>
       IN  /\ ~PrepareRaises(args.columns, labels, rn)
           /\ selected_columns' =
                  _prepare_labels(args.columns, labels, rn).labels
           /\ axis_labels' =
                  _prepare_labels(args.columns, labels, rn).human_readable
    /\ plot_pc' = "colour"
    /\ UNCHANGED << scriptVars, args, label_colour, fig >>

\* _prepare_labels raises IndexError, which leaves scatter_3D
ScatterPrepareFails ==
    /\ plot_pc = "prepare"
    /\ PrepareRaises(args.columns,
                     << args.label_x, args.label_y, args.label_z >>,
                     << TRUE, TRUE, TRUE >>)
    /\ plot_pc' = "raised"
    /\ UNCHANGED << scriptVars, args, label_colour, selected_columns,
                    axis_labels, fig >>

\* if label_colour is None: label_colour = selected_columns[2]
ScatterColourDefault ==
    /\ plot_pc = "colour"
    /\ label_colour = None
    /\ label_colour' = selected_columns[3]
    /\ plot_pc' = "figure"
    /\ UNCHANGED << scriptVars, args, selected_columns, axis_labels, fig >>

\* else: axis_labels[label_colour] = _to_human_readable(label_colour)
ScatterColourGiven ==
    /\ plot_pc = "colour"
    /\ label_colour # None
    /\ axis_labels' =
           (label_colour :> _to_human_readable(label_colour)) @@ axis_labels
    /\ plot_pc' = "figure"
    /\ UNCHANGED << scriptVars, args, label_colour, selected_columns, fig >>

\* fig = px.scatter_3d(df, x=selected_columns[0], y=selected_columns[1],
\*                     z=selected_columns[2], color=label_colour,
\*                     labels=axis_labels, title=title)
\* if show: fig.show()
ScatterFigure ==
    /\ plot_pc = "figure"
    /\ fig' = [x |-> selected_columns[1], y |-> selected_columns[2],
               z |-> selected_columns[3], color |-> label_colour,
               labels |-> axis_labels, shown |-> args.show]
    /\ plot_pc' = "return"
    /\ UNCHANGED << scriptVars, args, label_colour, selected_columns,
                    axis_labels >>

\* return fig (or the IndexError has propagated): the call is over
ScatterReturn ==
    /\ plot_pc \in {"return", "raised"}
    /\ plot_pc' = "idle"
    /\ args' = NoArgs
    /\ label_colour' = None
    /\ selected_columns' = << >>
    /\ axis_labels' = << >>
    /\ fig' = NoFig
    /\ UNCHANGED scriptVars

\* The graphing module in use on its own: the generation script is not run.
InitScatter ==
    /\ n_trees = 0 /\ n_hikers = 0 /\ n_dogs = 0
    /\ np_random = 0
    /\ fs = [dir |-> FALSE, exists |-> FALSE, lines |-> << >>]
    /\ prev = << >>
    /\ Fresh
    /\ PlotIdle

NextScatter ==
    \/ ScatterCall
    \/ ScatterPrepare \/ ScatterPrepareFails
    \/ ScatterColourDefault \/ ScatterColourGiven
    \/ ScatterFigure
    \/ ScatterReturn

SpecScatter == InitScatter /\ [][NextScatter]_vars

\* ---------------------------------------------------------------- claims
\* Positions of the script
AfterClamp ==
    {"DataFrame", "to_csv", "read_csv", "get_dummies", "train_test_split",
     "fit", "assess", "done", "aborted"}

\* d has been built
Built == pc \in AfterClamp \ {"DataFrame"}

\* the file has been written by this run
Written == Built /\ pc # "to_csv" /\ error # "OSError"

\* The fields of data row i of the file
FileRow(i) == Split(fs.lines[i + 1], "\t")

\* The values as sampled, before clamping, in concatenation order
RawSize == tree_size \o hike_size \o dog_size
RawRoughness == tree_roughness \o hike_roughness \o dog_roughness
RawMotion == tree_motion \o hike_motion \o dog_motion

\* C1: every row of the table that is built and written to
\* Data/snow_objects.csv has size >= 0.2, roughness >= 0 and motion >= 0,
\* in the table and in the text of the file.
C1_RowsClamped ==
    /\ Built =>
           /\ Len(d.col["size"]) = d.n
           /\ \A i \in 1..d.n :
                  /\ d.col["size"][i] >= SizeFloor
                  /\ d.col["roughness"][i] >= 0
                  /\ d.col["motion"][i] >= 0
    /\ Written =>
           /\ Len(fs.lines) = 1 + Len(RawSize)
           /\ \A i \in 1..(Len(fs.lines) - 1) :
                  /\ ParseFloat(FileRow(i)[1]) >= SizeFloor
                  /\ ParseFloat(FileRow(i)[2]) >= 0
                  /\ ParseFloat(FileRow(i)[4]) >= 0

\* C1 witness: a written table in which a size, a roughness and a motion
\* were sampled below their floors.
C1_Witness ==
    /\ Written
    /\ \E i \in 1..d.n : RawSize[i] < SizeFloor /\ d.col["size"][i] = SizeFloor
    /\ \E i \in 1..d.n : RawRoughness[i] < 0 /\ d.col["roughness"][i] = 0
    /\ \E i \in 1..d.n : RawMotion[i] < 0 /\ d.col["motion"][i] = 0

CountOf(a, v) == Cardinality({i \in 1..Len(a) : a[i] = v})

\* C2: the table has n_trees + n_hikers + n_dogs rows, n_trees of them
\* labelled "tree", n_hikers "hiker" and n_dogs "dog", in every column, and
\* the file has as many data rows.
C2_RowCounts ==
    /\ Built =>
           /\ d.n = n_trees + n_hikers + n_dogs
           /\ \A c \in Range(d.columns) : Len(d.col[c]) = d.n
           /\ CountOf(d.col["label"], "tree") = n_trees
           /\ CountOf(d.col["label"], "hiker") = n_hikers
           /\ CountOf(d.col["label"], "dog") = n_dogs
    /\ Written => Len(fs.lines) - 1 = n_trees + n_hikers + n_dogs

\* C2 witness: three different positive counts, and a row that was clamped.
C2_Witness ==
    /\ Written
    /\ n_trees > 0 /\ n_hikers > 0 /\ n_dogs > 0
    /\ n_trees # n_hikers
    /\ \E i \in 1..d.n : RawSize[i] # d.col["size"][i]

PaletteOf(l) ==
    CASE l = "tree" -> {"green", "brown", "white", "yellow", "black"}
      [] l = "hiker" -> {"green", "brown", "white", "red", "blue", "yellow",
                         "orange", "black"}
      [] l = "dog" -> {"brown", "white", "red", "black"}

\* C3: in the assembled table every row's color belongs to the palette of
\* the row's label.
C3_ColorInPalette ==
    Built =>
        /\ Len(d.col["color"]) = Len(d.col["label"])
        /\ \A i \in 1..Len(d.col["color"]) :
               d.col["color"][i] \in PaletteOf(d.col["label"][i])

\* C3 witness: a table with a hiker row whose color no tree or dog can have
\* next to tree and dog rows.
C3_Witness ==
    /\ Built
    /\ n_trees > 0 /\ n_dogs > 0
    /\ \E i \in 1..d.n :
           /\ d.col["label"][i] = "hiker"
           /\ d.col["color"][i] \notin PaletteOf("tree") \cup PaletteOf("dog")

ClampedTo(v, floor) == IF v < floor THEN floor ELSE v

\* C4: the rows are the tree rows, then the hiker rows, then the dog rows,
\* the i-th row of a block holding the i-th values sampled for the class
\* (clamped); the file has the rows in the same order.
C4_InsertionOrder ==
    /\ Built =>
           /\ d.col["label"] = Repeat("tree", n_trees)
                  \o Repeat("hiker", n_hikers) \o Repeat("dog", n_dogs)
           /\ \A i \in 1..n_trees :
                  /\ d.col["size"][i] = ClampedTo(tree_size[i], SizeFloor)
                  /\ d.col["roughness"][i] = ClampedTo(tree_roughness[i], 0)
                  /\ d.col["motion"][i] = ClampedTo(tree_motion[i], 0)
                  /\ d.col["color"][i] = tree_color[i]
           /\ \A i \in 1..n_hikers :
                  LET k == n_trees + i
                  IN  /\ d.col["size"][k] = ClampedTo(hike_size[i], SizeFloor)
                      /\ d.col["roughness"][k] = ClampedTo(hike_roughness[i], 0)
                      /\ d.col["motion"][k] = ClampedTo(hike_motion[i], 0)
                      /\ d.col["color"][k] = hike_color[i]
           /\ \A i \in 1..n_dogs :
                  LET k == n_trees + n_hikers + i
                  IN  /\ d.col["size"][k] = ClampedTo(dog_size[i], SizeFloor)
                      /\ d.col["roughness"][k] = ClampedTo(dog_roughness[i], 0)
                      /\ d.col["motion"][k] = ClampedTo(dog_motion[i], 0)
                      /\ d.col["color"][k] = dog_color[i]
    /\ Written =>
           \A i \in 1..(Len(fs.lines) - 1) :
               /\ i <= d.n
               /\ ParseFloat(FileRow(i)[1]) = d.col["size"][i]
               /\ ParseFloat(FileRow(i)[2]) = d.col["roughness"][i]
               /\ Word(FileRow(i)[3]) = d.col["color"][i]
               /\ ParseFloat(FileRow(i)[4]) = d.col["motion"][i]
               /\ Word(FileRow(i)[5]) = d.col["label"][i]

\* C4 witness: a written table with rows of all three classes, two trees
\* with different values, and a clamped row.
C4_Witness ==
    /\ Written
    /\ n_trees > 1 /\ n_hikers > 0 /\ n_dogs > 0
    /\ tree_size[1] # tree_size[2]
    /\ tree_size[1] # hike_size[1]
    /\ \E i \in 1..d.n : RawMotion[i] # d.col["motion"][i]

\* C5: two runs of the script with the seed 1234567 give the same clamped
\* size, roughness and motion in every row.
C5_SameValuesEveryRun ==
    (prev # << >> /\ pc \in AfterClamp) =>
        /\ size = prev[1].size
        /\ roughness = prev[1].roughness
        /\ motion = prev[1].motion

NormalSteps ==
    {"tree_roughness", "tree_motion", "tree_size", "hike_roughness",
     "hike_size", "dog_roughness", "dog_size"}
ChoiceSteps == {"tree_color", "hike_color", "dog_color"}
SkewSteps == {"hike_motion", "dog_motion"}

\* The number of samples the statement at p draws
CountAt(p) ==
    IF p \in {"tree_color", "tree_roughness", "tree_motion", "tree_size"}
    THEN n_trees
    ELSE IF p \in {"hike_color", "hike_roughness", "hike_motion", "hike_size"}
    THEN n_hikers
    ELSE n_dogs

\* C6 as stated: the plain normal draws consume the generator seeded with
\* 1234567 and leave rng alone, the categorical and the skewed draws consume
\* the unseeded generator rng and leave the seeded one alone.
C6_NormalsSeeded ==
    [][/\ pc \in NormalSteps =>
              /\ np_random' = Advance(np_random, CountAt(pc))
              /\ rng' = rng
       /\ pc \in ChoiceSteps \cup SkewSteps =>
              /\ rng' = Advance(rng, CountAt(pc))
              /\ np_random' = np_random]_vars

\* C6 as the code has it: the skewed draws (hiker and dog motion) consume
\* the global generator seeded with 1234567, and the plain normal and the
\* categorical draws consume the unseeded generator rng; each draw leaves
\* the other generator alone.
C6_SkewSeeded ==
    [][/\ pc \in NormalSteps \cup ChoiceSteps =>
              /\ rng' = Advance(rng, CountAt(pc))
              /\ np_random' = np_random
       /\ pc \in SkewSteps =>
              /\ np_random' = Advance(np_random, CountAt(pc))
              /\ rng' = rng
       /\ pc = "hike_motion" =>
              /\ np_random = SeedState
              /\ hike_motion' =
                     [i \in 1..n_hikers |->
                         HikeMotion(skewnorm_rvs(SeedState, n_hikers)[i])]
       /\ pc = "dog_motion" =>
              /\ np_random = Advance(SeedState, n_hikers)
              /\ dog_motion' =
                     [i \in 1..n_dogs |->
                         DogMotion(skewnorm_rvs(np_random, n_dogs)[i])]
       /\ pc = "tree_roughness" =>
              tree_roughness' =
                  [i \in 1..n_trees |->
                      TreeRoughness(standard_normal(rng, n_trees)[i])]
       /\ pc = "tree_color" =>
              tree_color' = choice(rng, TreePalette, n_trees, TreeProbs)]_vars

\* C6 witness: the second run has drawn the hiker and dog motions from the
\* seeded generator, which repeats those of the first run, and the tree
\* roughness from rng, which does not.
C6_Witness ==
    /\ pc = "concat"
    /\ prev # << >>
    /\ n_trees > 0 /\ n_hikers > 0 /\ n_dogs > 0
    /\ np_random = Advance(SeedState, n_hikers + n_dogs)
    /\ np_random # SeedState
    /\ Len(prev[1].motion) = n_trees + n_hikers + n_dogs
    /\ \A i \in 1..(n_hikers + n_dogs) :
           prev[1].motion[n_trees + i] =
               ClampedTo((hike_motion \o dog_motion)[i], 0)
    /\ \E i \in 1..n_trees :
           prev[1].roughness[i] # ClampedTo(tree_roughness[i], 0)

AfterTreeSize == AfterClamp \cup
    {"tree_labels", "hike_color", "hike_roughness", "hike_motion",
     "hike_size", "hike_labels", "dog_color", "dog_roughness", "dog_motion",
     "dog_size", "dog_labels", "concat", "clamp"}
AfterHikeSize == AfterTreeSize \
    {"tree_labels", "hike_color", "hike_roughness", "hike_motion", "hike_size"}
AfterDogSize == AfterHikeSize \
    {"hike_labels", "dog_color", "dog_roughness", "dog_motion", "dog_size"}

\* C7: the size of tree row i, before clamping, is
\* noise_i * 6 + (roughness_i + 1) / (motion_i + 1) * 20 with the roughness
\* and motion sampled for row i; a hiker's size is noise * 0.3 + 1.75 and a
\* dog's noise * 0.3 + 1.2, whatever their roughness and motion.
C7_TreeSizeOwnRow ==
    /\ pc \in AfterTreeSize =>
           /\ Len(tree_size) = n_trees
           /\ \A i \in 1..n_trees :
                  tree_size[i] =
                      noise.tree[i] * 6
                      + (((tree_roughness[i] + Scale) * Scale)
                             \div (tree_motion[i] + Scale)) * 20
    /\ pc \in AfterHikeSize =>
           /\ Len(hike_size) = n_hikers
           /\ \A i \in 1..n_hikers :
                  hike_size[i] = (noise.hiker[i] * 3) \div 10 + 1750
    /\ pc \in AfterDogSize =>
           /\ Len(dog_size) = n_dogs
           /\ \A i \in 1..n_dogs :
                  dog_size[i] = (noise.dog[i] * 3) \div 10 + 1200

\* C7 witness: two trees with different roughness and different motion,
\* and two hikers with the same noise and different roughness.
C7_Witness ==
    /\ pc = "concat"
    /\ n_trees = 2 /\ n_hikers = 2
    /\ tree_roughness[1] # tree_roughness[2]
    /\ tree_motion[1] # tree_motion[2]
    /\ hike_roughness[1] # hike_roughness[2]
    /\ hike_motion[1] # hike_motion[2]

\* C8: a write without the directory Data raises an I/O error that ends the
\* run: the directory is not created, no file appears, and no statement of
\* the Evaluator has run or will run in this run; with the directory, the
\* write replaces whatever the file held by the new table.
C8_MissingDirAborts ==
    [][/\ (pc = "to_csv" /\ ~fs.dir) =>
              /\ pc' = "aborted"
              /\ error' = "OSError"
              /\ fs' = fs
              /\ dataset' = NoFrame /\ train' = << >> /\ test' = << >>
              /\ random_forest' = NoForest
       /\ (pc = "aborted" /\ error = "OSError") =>
              /\ ~fs.dir /\ ~fs.exists
              /\ dataset = NoFrame /\ train = << >> /\ test = << >>
              /\ ~random_forest.fitted
              /\ pc' = "seed"
       /\ (pc = "to_csv" /\ fs.dir) =>
              /\ fs'.exists
              /\ Len(fs'.lines) = d.n + 1
              /\ [j \in 1..5 |-> Word(Split(fs'.lines[1], "\t")[j])]
                     = d.columns
              /\ \A i \in 1..d.n :
                     LET row == Split(fs'.lines[i + 1], "\t")
                     IN  /\ ParseFloat(row[1]) = size[i]
                         /\ ParseFloat(row[2]) = roughness[i]
                         /\ Word(row[3]) = color[i]
                         /\ ParseFloat(row[4]) = motion[i]
                         /\ Word(row[5]) = label[i]
              /\ pc' = "read_csv"]_vars

\* C8 witness: a run that stopped at the write for want of the directory,
\* after a table with rows had been built.
C8_Witness ==
    /\ pc = "aborted"
    /\ error = "OSError"
    /\ ~fs.dir
    /\ d.n > 0
    /\ dataset = NoFrame

\* C9: the table read back from Data/snow_objects.csv has the rows, the
\* column names in order (size, roughness, color, motion, label, no index
\* column) and the cell values of the table written.
C9_RoundTrip ==
    pc = "get_dummies" =>
        /\ dataset.n = d.n
        /\ dataset.columns = << "size", "roughness", "color", "motion", "label" >>
        /\ \A c \in Range(d.columns) :
               /\ Len(dataset.col[c]) = d.n
               /\ \A i \in 1..d.n : dataset.col[c][i] = d.col[c][i]

\* C9 witness: a table of at least three rows read back, with a clamped
\* size and a value with three fraction digits.
C9_Witness ==
    /\ pc = "get_dummies"
    /\ dataset.n >= 3
    /\ \E i \in 1..d.n : d.col["size"][i] = SizeFloor
    /\ \E i \in 1..d.n : d.col["roughness"][i] % 10 # 0
    /\ \E i \in 1..d.n : d.col["size"][i] > 10 * Scale

\* C10: with n_trees = n_hikers = n_dogs = 0 the file written is the header
\* line alone, with no data row.
C10_EmptyHeaderOnly ==
    (Written /\ n_trees = 0 /\ n_hikers = 0 /\ n_dogs = 0) =>
        /\ fs.exists
        /\ fs.lines =
               << Join(<< Spelling["size"], Spelling["roughness"],
                          Spelling["color"], Spelling["motion"],
                          Spelling["label"] >>, "\t") >>

\* C10 witness: the zero-count run has written its file, and the Evaluator
\* has read back a table of five columns and no rows.
C10_Witness ==
    /\ n_trees = 0 /\ n_hikers = 0 /\ n_dogs = 0
    /\ pc = "get_dummies"
    /\ Len(fs.lines) = 1
    /\ dataset.n = 0
    /\ Len(dataset.columns) = 5

\* C11: a call of scatter_3D with label_colour = None colours the points by
\* the column on the x axis (label_x, or the first column of df when label_x
\* is None too).
C11_ColourDefaultsToX ==
    (plot_pc = "return" /\ args.label_colour = None) =>
        /\ fig.color = fig.x
        /\ fig.x = IF args.label_x = None THEN args.columns[1]
                   ELSE args.label_x

====
